---- MODULE Spec2Model ----
(***************************************************************************)
(* ThinkerTask (src/src/App.jsx): a braille auto-correct engine.           *)
(*                                                                         *)
(*   - Trie / TrieNode: the dictionary prefix tree, with insert and the    *)
(*     approximate search (depth-first walk carrying one edit-distance     *)
(*     row per node, then sort by cost and slice).                         *)
(*   - App: the key handler that groups dot keys with a 200 ms timer.      *)
(*                                                                         *)
(* A trie node is identified by the path of symbols from the root, so the  *)
(* root is <<>>.  A pattern such as '110000' is the tuple <<1,1,0,0,0,0>>. *)
(* Arrays are 1-based here: the code's dp[j] is dp[j + 1].                 *)
(***************************************************************************)
EXTENDS Integers, Sequences, FiniteSets, TLC

\* ------------------------------------------------------------- bounds
\* Most nodes a trie may hold besides the root.
MaxNodes == 2
\* Longest query handed to search.
MaxQueryLen == 2
\* Most entries of the App's groups array.
MaxGroups == 2

\* ---------------------------------------------------------- constants
deletionCost == 3
defaultMaxSuggestions == 5
PatternWidth == 6

letterToPattern ==
    "a" :> <<1,0,0,0,0,0>> @@ "b" :> <<1,1,0,0,0,0>> @@
    "c" :> <<1,0,0,1,0,0>> @@ "d" :> <<1,0,0,1,1,0>> @@
    "e" :> <<1,0,0,0,1,0>> @@ "f" :> <<1,1,0,1,0,0>> @@
    "g" :> <<1,1,0,1,1,0>> @@ "h" :> <<1,1,0,0,1,0>> @@
    "i" :> <<0,1,0,1,0,0>> @@ "j" :> <<0,1,0,1,1,0>> @@
    "k" :> <<1,0,1,0,0,0>> @@ "l" :> <<1,1,1,0,0,0>> @@
    "m" :> <<1,0,1,1,0,0>> @@ "n" :> <<1,0,1,1,1,0>> @@
    "o" :> <<1,0,1,0,1,0>> @@ "p" :> <<1,1,1,1,0,0>> @@
    "q" :> <<1,1,1,1,1,0>> @@ "r" :> <<1,1,1,0,1,0>> @@
    "s" :> <<0,1,1,1,0,0>> @@ "t" :> <<0,1,1,1,1,0>> @@
    "u" :> <<1,0,1,0,0,1>> @@ "v" :> <<1,1,1,0,0,1>> @@
    "w" :> <<0,1,0,1,1,1>> @@ "x" :> <<1,0,1,1,0,1>> @@
    "y" :> <<1,0,1,1,1,1>> @@ "z" :> <<1,0,1,0,1,1>>

\* What a lookup of a missing property yields; like the empty string, falsy.
undefined == <<>>

\* ------------------------------------------------------------- inputs
\* The symbols words are made of: two letters and "1", which has no pattern
\* and is an integer-like property name.
Symbols == {"b", "c", "1"}

\* The patterns queries are made of.
QueryPatterns == {letterToPattern["a"], letterToPattern["b"], letterToPattern["c"]}

\* The values of maxSuggestions tried: negative, zero, small, the default.
KValues == {-1, 0, 1, defaultMaxSuggestions}

SeqsUpTo(S, n) == UNION {[1..m -> S] : m \in 0..n}

Words == SeqsUpTo(Symbols, MaxNodes)

Queries == SeqsUpTo(QueryPatterns, MaxQueryLen)

\* -------------------------------------------------------------- state
VARIABLES
    children,        \* TrieNode.children of every node: its keys, in creation order
    isEnd,           \* TrieNode.isEnd of every node
    op,              \* the Trie call that has not returned yet: "none", "insert" or "search"
    word,            \* insert's argument
    inputPatterns,   \* search's arguments
    maxSuggestions,
    suggestions,     \* search's suggestions array when it returns (sorted in place)
    visited,         \* the (node, dp) pairs _search was called with, in order
    result,          \* what search returned
    again,           \* insert's argument was a word of the trie already
    currentKeys,     \* App state
    groups,          \* App state
    timer            \* the pending timeout, with the currentKeys its callback closed over

trieVars == <<children, isEnd, op, word, inputPatterns, maxSuggestions,
              suggestions, visited, result, again>>
appVars == <<currentKeys, groups, timer>>
vars == <<children, isEnd, op, word, inputPatterns, maxSuggestions,
          suggestions, visited, result, again, currentKeys, groups, timer>>

\* ------------------------------------------------------------ helpers
Range(s) == {s[i] : i \in 1..Len(s)}

Min(S) == CHOOSE x \in S : \A y \in S : x <= y

\* The trie as one value.
Trie(ch, ie) == [children |-> ch, isEnd |-> ie]

\* new TrieNode() under the constructor's root.
EmptyTrie == Trie(<<>> :> <<>>, <<>> :> FALSE)

\* ------------------------------------------------------------- insert
\* One turn of insert's loop: create the child for word[i] if it is missing.
InsertStepDup(T, w, i) ==
    LET node == SubSeq(w, 1, i - 1)
        child == SubSeq(w, 1, i)
    IN  Trie((node :> Append(T.children[node], w[i])) @@ (child :> <<>>) @@ T.children,
             (child :> FALSE) @@ T.isEnd)

InsertStep(T, w, i) ==
    LET node == SubSeq(w, 1, i - 1)
        child == SubSeq(w, 1, i)
    IN  IF w[i] \in Range(T.children[node])
        THEN T
        ELSE Trie((node :> Append(T.children[node], w[i])) @@ (child :> <<>>) @@ T.children,
                  (child :> FALSE) @@ T.isEnd)

RECURSIVE InsertFrom(_, _, _)
InsertFrom(T, w, i) ==
    IF i > Len(w)
    THEN Trie(T.children, (w :> TRUE) @@ T.isEnd)
    ELSE InsertFrom(InsertStep(T, w, i), w, i + 1)

insert(T, w) == InsertFrom(T, w, 1)

\* ------------------------------------------------------------- search
_hammingDistanceEq(pattern1, pattern2) ==
    Cardinality({i \in 1..PatternWidth : pattern1[i] = pattern2[i]})

_hammingDistance(pattern1, pattern2) ==
    Cardinality({i \in 1..PatternWidth : pattern1[i] /= pattern2[i]})

\* letterToPattern[char]
PatternOrDefault(char) ==
    IF char \in DOMAIN letterToPattern THEN letterToPattern[char] ELSE <<0,0,0,0,0,0>>

Pattern(char) ==
    IF char \in DOMAIN letterToPattern THEN letterToPattern[char] ELSE undefined

\* Array(n + 1).fill().map((_, i) => i * this.deletionCost)
initialDpOff(n) == [i \in 1..(n + 1) |-> (i - 1) * (deletionCost + 1)]

initialDp(n) == [i \in 1..(n + 1) |-> (i - 1) * deletionCost]

\* The child's row from its parent's row dp.
RECURSIVE NewDpNoInsert(_, _, _, _)
NewDpNoInsert(dp, pattern, q, j) ==
    IF j = 0
    THEN <<dp[1] + deletionCost>>
    ELSE LET newDp == NewDpNoInsert(dp, pattern, q, j - 1)
         IN  Append(newDp, Min({dp[j + 1] + deletionCost,
                                dp[j] + _hammingDistance(pattern, q[j])}))

RECURSIVE NewDpUpTo(_, _, _, _)
NewDpUpTo(dp, pattern, q, j) ==
    IF j = 0
    THEN <<dp[1] + deletionCost>>
    ELSE LET newDp == NewDpUpTo(dp, pattern, q, j - 1)
         IN  Append(newDp, Min({dp[j + 1] + deletionCost,
                                newDp[j] + deletionCost,
                                dp[j] + _hammingDistance(pattern, q[j])}))

NewDpOf(dp, pattern, q) == NewDpUpTo(dp, pattern, q, Len(q))

\* Math.min(...dp.map((cost, j) => cost + this.deletionCost * (n - j)))
totalCost(dp, n) == Min({dp[j + 1] + deletionCost * (n - j) : j \in 0..n})

\* Object.entries(node.children): the integer-like keys first, ascending, then
\* the other keys in the order they were created.
IndexKeys == <<"0", "1", "2", "3", "4", "5", "6", "7", "8", "9">>

ObjectEntriesCreation(keys) == keys

ObjectEntries(keys) ==
    SelectSeq(IndexKeys, LAMBDA k : k \in Range(keys))
        \o SelectSeq(keys, LAMBDA k : k \notin Range(IndexKeys))

\* _search and its loop over the children; acc is the suggestions array (and
\* the record of the calls made).
RECURSIVE _search(_, _, _, _, _)
RECURSIVE ExploreChildren(_, _, _, _, _, _, _)

ExploreChildren(T, node, entries, i, dp, q, acc) ==
    IF i > Len(entries)
    THEN acc
    ELSE LET char == entries[i]
             pattern == Pattern(char)
         IN  IF pattern = undefined
             THEN ExploreChildren(T, node, entries, i + 1, dp, q, acc)
             ELSE ExploreChildren(T, node, entries, i + 1, dp, q,
                      _search(T, Append(node, char), NewDpOf(dp, pattern, q), q, acc))

_search(T, node, dp, q, acc) ==
    LET n == Len(q)
        seen == Append(acc.visited, [word |-> node, dp |-> dp])
        pushed == IF T.isEnd[node]
                  THEN Append(acc.suggestions, [word |-> node, cost |-> totalCost(dp, n)])
                  ELSE acc.suggestions
    IN  ExploreChildren(T, node, ObjectEntries(T.children[node]), 1, dp, q,
                        [suggestions |-> pushed, visited |-> seen])

\* Array.prototype.sort((a, b) => a.cost - b.cost): a stable sort by cost.
RECURSIVE InsertSortedBefore(_, _)
InsertSortedBefore(s, r) ==
    IF s = <<>> THEN <<r>>
    ELSE IF r.cost <= Head(s).cost THEN <<r>> \o s
    ELSE <<Head(s)>> \o InsertSortedBefore(Tail(s), r)

RECURSIVE InsertSorted(_, _)
InsertSorted(s, r) ==
    IF s = <<>> THEN <<r>>
    ELSE IF r.cost < Head(s).cost THEN <<r>> \o s
    ELSE <<Head(s)>> \o InsertSorted(Tail(s), r)

RECURSIVE sort(_)
sort(s) ==
    IF s = <<>> THEN <<>>
    ELSE InsertSorted(sort(SubSeq(s, 1, Len(s) - 1)), s[Len(s)])

\* Array.prototype.slice(0, end): a negative end counts from the array's end.
sliceOneMore(s, end) ==
    LET e == IF end < 0 THEN Len(s) + end + 1 ELSE end + 1
        final == IF e < 0 THEN 0 ELSE IF e > Len(s) THEN Len(s) ELSE e
    IN  SubSeq(s, 1, final)

slice(s, end) ==
    LET e == IF end < 0 THEN Len(s) + end ELSE end
        final == IF e < 0 THEN 0 ELSE IF e > Len(s) THEN Len(s) ELSE e
    IN  SubSeq(s, 1, final)

\* search: what it returns, with the suggestions array and the calls made.
search(T, q, k) ==
    IF Len(q) = 0
    THEN [result |-> <<>>, suggestions |-> <<>>, visited |-> <<>>]
    ELSE LET acc == _search(T, <<>>, initialDp(Len(q)), q,
                            [suggestions |-> <<>>, visited |-> <<>>])
             sorted == sort(acc.suggestions)
         IN  [result |-> slice(sorted, k), suggestions |-> sorted, visited |-> acc.visited]

\* ------------------------------------------------------------ actions
Init ==
    /\ children = EmptyTrie.children
    /\ isEnd = EmptyTrie.isEnd
    /\ op = "none"
    /\ word = <<>>
    /\ inputPatterns = <<>>
    /\ maxSuggestions = defaultMaxSuggestions
    /\ suggestions = <<>>
    /\ visited = <<>>
    /\ result = <<>>
    /\ again = FALSE
    /\ currentKeys = <<>>
    /\ groups = <<>>
    /\ timer = [pending |-> FALSE, currentKeys |-> <<>>]

Insert(w) ==
    LET T == insert(Trie(children, isEnd), w)
    IN  /\ op = "none"
        /\ Cardinality(DOMAIN T.children) <= MaxNodes + 1
        /\ children' = T.children
        /\ isEnd' = T.isEnd
        /\ op' = "insert"
        /\ word' = w
        /\ again' = (w \in DOMAIN isEnd /\ isEnd[w])
        /\ inputPatterns' = <<>>
        /\ maxSuggestions' = defaultMaxSuggestions
        /\ suggestions' = <<>>
        /\ visited' = <<>>
        /\ result' = <<>>
        /\ UNCHANGED appVars

Search(q, k) ==
    LET r == search(Trie(children, isEnd), q, k)
    IN  /\ op = "none"
        /\ op' = "search"
        /\ inputPatterns' = q
        /\ maxSuggestions' = k
        /\ suggestions' = r.suggestions
        /\ visited' = r.visited
        /\ result' = r.result
        /\ word' = <<>>
        /\ UNCHANGED <<children, isEnd, again>>
        /\ UNCHANGED appVars

\* The call returns to its caller, which holds no reference to the call's values.
Return ==
    /\ op /= "none"
    /\ op' = "none"
    /\ word' = <<>>
    /\ again' = FALSE
    /\ inputPatterns' = <<>>
    /\ maxSuggestions' = defaultMaxSuggestions
    /\ suggestions' = <<>>
    /\ visited' = <<>>
    /\ result' = <<>>
    /\ UNCHANGED <<children, isEnd>>
    /\ UNCHANGED appVars

Next ==
    \/ \E w \in Words : Insert(w)
    \/ \E q \in Queries, k \in KValues : Search(q, k)
    \/ Return

Spec == Init /\ [][Next]_vars

\* ---------------------------------------------------------------- App
keyToDot == "d" :> 0 @@ "w" :> 1 @@ "q" :> 2 @@ "k" :> 3 @@ "o" :> 4 @@ "p" :> 5

\* The values of e.key tried: dot keys, one with shift held, the two editing
\* keys and a key the handler ignores.
PressedKeys == {"d", "w", "k", "D", "Backspace", " ", "x"}

\* String.prototype.toLowerCase, on the keys above.
toLowerCase(key) ==
    CASE key = "D" -> "d"
      [] key = "Backspace" -> "backspace"
      [] OTHER -> key

\* [...keys].sort() of distinct dot keys: by code unit.
KeyOrder == <<"d", "k", "o", "p", "q", "w">>

sortKeys(keys) == SelectSeq(KeyOrder, LAMBDA k : k \in Range(keys))

\* The entry setGroups appends for the space bar (the string 'space'); no
\* array of dot keys equals it.
space == <<"space">>

\* handleKeyDown of the current render: currentKeys is that render's value,
\* and the timeout's callback closes over it.  A key event is handled after
\* the render that followed the previous event, so the handler reads the
\* latest state.  The groups array is capped at MaxGroups entries.
handleKeyDown(e) ==
    LET key == toLowerCase(e)
    IN  /\ Len(groups) < MaxGroups \/ key /= " "
        /\ IF key \in DOMAIN keyToDot /\ key \notin Range(currentKeys)
           THEN /\ currentKeys' = Append(currentKeys, key)
                /\ timer' = [pending |-> TRUE, currentKeys |-> currentKeys]
                /\ UNCHANGED groups
           ELSE IF key = "backspace"
           THEN /\ groups' = SubSeq(groups, 1, Len(groups) - 1)
                /\ UNCHANGED <<currentKeys, timer>>
           ELSE IF key = " "
           THEN /\ groups' = Append(groups, space)
                /\ UNCHANGED <<currentKeys, timer>>
           ELSE UNCHANGED <<currentKeys, groups, timer>>
        /\ UNCHANGED trieVars

\* The timeout's callback, 200 ms after the last accepted dot key.
TimerFire ==
    /\ timer.pending
    /\ Len(timer.currentKeys) > 0 => Len(groups) < MaxGroups
    /\ timer' = [timer EXCEPT !.pending = FALSE]
    /\ IF Len(timer.currentKeys) > 0
       THEN /\ groups' = Append(groups, sortKeys(timer.currentKeys))
            /\ currentKeys' = <<>>
       ELSE UNCHANGED <<currentKeys, groups>>
    /\ UNCHANGED trieVars

NextApp ==
    \/ \E e \in PressedKeys : handleKeyDown(e)
    \/ TimerFire

SpecApp == Init /\ [][NextApp]_vars


\* ================================================================ claims
Known(w) == \A i \in 1..Len(w) : w[i] \in DOMAIN letterToPattern

PatternsOf(w) == [i \in 1..Len(w) |-> letterToPattern[w[i]]]

EndWords == {w \in DOMAIN isEnd : isEnd[w]}

Count(w, s) == Cardinality({i \in 1..Len(s) : s[i].word = w})

IsSortedByCost(s) == \A i \in 1..(Len(s) - 1) : s[i].cost <= s[i + 1].cost

\* C1: searching the exact patterns of an inserted non-empty word whose
\* symbols all have a pattern, with maxSuggestions >= 1, returns that word
\* first with cost 0, and no other returned record has cost 0.
C1_ExactMatchFirstAtCostZero ==
    (op = "search" /\ maxSuggestions >= 1) =>
        \A w \in EndWords :
            (w /= <<>> /\ Known(w) /\ inputPatterns = PatternsOf(w)) =>
                /\ Len(result) >= 1
                /\ result[1] = [word |-> w, cost |-> 0]
                /\ \A i \in 2..Len(result) : result[i].cost /= 0

C1_Witness ==
    /\ op = "search"
    /\ maxSuggestions >= 1
    /\ Len(result) >= 2
    /\ \E w \in EndWords : Len(w) = 2 /\ Known(w) /\ inputPatterns = PatternsOf(w)

\* C2: for a non-empty query and maxSuggestions = k >= 0 the result has at
\* most k records, is sorted non-decreasing by cost, and is a prefix of the
\* result for the same trie and query with k at least the number of records
\* emitted.
C2_RankedAndTruncated ==
    (op = "search" /\ Len(inputPatterns) > 0 /\ maxSuggestions >= 0) =>
        /\ Len(result) <= maxSuggestions
        /\ IsSortedByCost(result)
        /\ \A k \in Len(suggestions)..(Len(suggestions) + 1) :
               LET full == search(Trie(children, isEnd), inputPatterns, k).result
               IN  /\ Len(full) = Len(suggestions)
                   /\ Len(result) <= Len(full)
                   /\ result = SubSeq(full, 1, Len(result))

C2_Witness ==
    /\ op = "search"
    /\ Len(inputPatterns) > 0
    /\ maxSuggestions = 1
    /\ Len(suggestions) >= 2
    /\ Len(result) = 1
    /\ suggestions[1].cost < suggestions[2].cost

\* C3: search with maxSuggestions <= 0 returns an empty sequence.
C3_NonPositiveYieldsEmpty ==
    (op = "search" /\ maxSuggestions <= 0) => result = <<>>

\* The trie without the edges whose symbol has no pattern, and what is under them.
PruneUnknown(T) ==
    LET nodes == {node \in DOMAIN T.children : Known(node)}
    IN  Trie([node \in nodes |->
                 SelectSeq(T.children[node], LAMBDA c : c \in DOMAIN letterToPattern)],
             [node \in nodes |-> T.isEnd[node]])

\* C4: no word with a symbol that has no pattern is in any search result,
\* though it is in the trie; and the result is what it would be without the
\* edges of such symbols.
C4_UnknownSymbolWordsPruned ==
    op = "search" =>
        /\ \A i \in 1..Len(suggestions) : Known(suggestions[i].word)
        /\ \A i \in 1..Len(result) : Known(result[i].word)
        /\ \A w \in EndWords : ~Known(w) => Count(w, suggestions) = 0
        /\ result = search(PruneUnknown(Trie(children, isEnd)),
                           inputPatterns, maxSuggestions).result

C4_Witness ==
    /\ op = "search"
    /\ result /= <<>>
    /\ \E w \in EndWords : ~Known(w) /\ w[1] \in DOMAIN letterToPattern
    /\ \E w \in EndWords : w /= <<>> /\ Known(w)

\* The sorted, untruncated suggestions of a search.
Untruncated(T, q) == search(T, q, defaultMaxSuggestions).suggestions

\* C5 (as amended): inserting a word the trie already holds leaves every
\* node and every end-of-word flag as it was, and in the untruncated result
\* of a search with a non-empty query the word appears exactly once when all
\* its symbols have a pattern, and not at all otherwise.
C5_InsertIdempotent ==
    [][(op' = "insert" /\ again') =>
          /\ children' = children
          /\ isEnd' = isEnd
          /\ \A q \in Queries \ {<<>>} :
                Count(word', Untruncated(Trie(children', isEnd'), q))
                    = IF Known(word') THEN 1 ELSE 0]_vars

C5_Witness ==
    /\ op = "insert"
    /\ again
    /\ word /= <<>>
    /\ Known(word)
    /\ Cardinality(EndWords) >= 2

\* C5 as claimed: after insert(w); insert(w) the trie is as after one
\* insert(w), and w appears exactly once in the untruncated result of a search.
C5_AppearsExactlyOnce ==
    [][(op' = "insert" /\ again') =>
          /\ children' = children
          /\ isEnd' = isEnd
          /\ \A q \in Queries \ {<<>>} :
                Count(word', Untruncated(Trie(children', isEnd'), q)) = 1]_vars

\* C6: insert of the empty word changes nothing: the trie, the root's
\* end-of-word flag included, is as before the call, and so is every search.
C6_EmptyInsertNoOp ==
    [][(op' = "insert" /\ word' = <<>>) =>
          /\ children' = children
          /\ isEnd' = isEnd
          /\ \A q \in Queries :
                Untruncated(Trie(children', isEnd'), q)
                    = Untruncated(Trie(children, isEnd), q)]_vars

\* The reference edit distance: the least cost among all edit scripts that
\* turn the word's first i symbols into the query's first j patterns.
RECURSIVE RefHamming(_, _, _)
RefHamming(p1, p2, i) ==
    IF i = 0 THEN 0
    ELSE RefHamming(p1, p2, i - 1) + (IF p1[i] = p2[i] THEN 0 ELSE 1)

RECURSIVE ScriptCosts(_, _, _, _)
ScriptCosts(w, q, i, j) ==
    IF i = 0 /\ j = 0 THEN {0}
    ELSE (IF i > 0 THEN {c + 3 : c \in ScriptCosts(w, q, i - 1, j)} ELSE {})
         \cup (IF j > 0 THEN {c + 3 : c \in ScriptCosts(w, q, i, j - 1)} ELSE {})
         \cup (IF i > 0 /\ j > 0
               THEN {c + RefHamming(letterToPattern[w[i]], q[j], 6) :
                        c \in ScriptCosts(w, q, i - 1, j - 1)}
               ELSE {})

EditDistance(w, q, j) == Min(ScriptCosts(w, q, Len(w), j))

\* C7: at every node search visits, dp[j] is the reference edit distance
\* between the node's prefix and the first j query patterns (deletion 3,
\* insertion 3, substitution the Hamming distance); the root's row is
\* 0, 3, ..., 3n.
C7_DpIsEditDistance ==
    op = "search" =>
        LET n == Len(inputPatterns)
        IN  /\ \A v \in 1..Len(visited) :
                  /\ Len(visited[v].dp) = n + 1
                  /\ \A j \in 0..n :
                        visited[v].dp[j + 1]
                            = EditDistance(visited[v].word, inputPatterns, j)
            /\ n > 0 =>
                  /\ visited[1].word = <<>>
                  /\ \A j \in 0..n : visited[1].dp[j + 1] = 3 * j

C7_Witness ==
    /\ op = "search"
    /\ Len(inputPatterns) = 2
    /\ \E v \in 1..Len(visited) :
          /\ Len(visited[v].word) = 2
          /\ visited[v].dp[3] > 0
          /\ visited[v].dp[3] < visited[v].dp[2]

\* The nodes of the trie in pre-order, a node before its descendants, the
\* children in the order insert created their edges.
RECURSIVE Preorder(_, _)
RECURSIVE PreorderOfChildren(_, _, _)
PreorderOfChildren(T, node, i) ==
    IF i > Len(T.children[node]) THEN <<>>
    ELSE Preorder(T, Append(node, T.children[node][i]))
             \o PreorderOfChildren(T, node, i + 1)

Preorder(T, node) == <<node>> \o PreorderOfChildren(T, node, 1)

IndexOf(s, x) == CHOOSE i \in 1..Len(s) : s[i] = x

InDiscoveryOrder(s) ==
    LET order == Preorder(Trie(children, isEnd), <<>>)
    IN  \A i, j \in 1..Len(s) :
            (i < j /\ s[i].cost = s[j].cost) =>
                IndexOf(order, s[i].word) < IndexOf(order, s[j].word)

\* C8: records of equal cost appear in the order of their discovery, the
\* pre-order walk that visits children in the order their edges were created.
C8_TiesInDiscoveryOrder ==
    op = "search" => (InDiscoveryOrder(suggestions) /\ InDiscoveryOrder(result))

C8_Witness ==
    /\ op = "search"
    /\ \E i, j \in 1..Len(result) :
          /\ i < j
          /\ result[i].cost = result[j].cost
          /\ result[i].word = <<"c">>
          /\ result[j].word = <<"b">>

\* C9: at every node search visits, dp[j] <= dp[j-1] + deletionCost for j in
\* 1..n, so the cost emitted at an end-of-word node, the least of
\* dp[j] + deletionCost * (n - j), is dp[n].
C9_RowSlopeAndEmittedCost ==
    op = "search" =>
        LET n == Len(inputPatterns)
        IN  /\ \A v \in 1..Len(visited) :
                  /\ \A j \in 1..n : visited[v].dp[j + 1] <= visited[v].dp[j] + 3
                  /\ \A j \in 0..n :
                        visited[v].dp[n + 1] <= visited[v].dp[j + 1] + 3 * (n - j)
            /\ \A i \in 1..Len(suggestions) :
                  \E v \in 1..Len(visited) :
                      /\ visited[v].word = suggestions[i].word
                      /\ suggestions[i].cost = visited[v].dp[n + 1]

C9_Witness ==
    /\ op = "search"
    /\ Len(inputPatterns) = 2
    /\ \E i \in 1..Len(suggestions) :
          /\ Len(suggestions[i].word) = 2
          /\ suggestions[i].cost > 0

\* C10: when the timer fires after accepted dot keys, the group appended to
\* groups holds exactly the keys pending in currentKeys, the last one pressed
\* included, and currentKeys is empty afterwards.
C10_TimerCommitsPendingKeys ==
    [][TimerFire =>
          /\ groups' = Append(groups, sortKeys(currentKeys))
          /\ currentKeys' = <<>>]_vars

====
